---------------------------- MODULE Spec2Model ----------------------------
(***************************************************************************)
(* HobbyCircles: the in-memory core of src/hobby_circles.py.               *)
(*                                                                         *)
(* State: the user registry (HobbyCirclesApp.users) and the activity board *)
(* (HobbyCirclesApp.activities), both Python lists, plus the most recent   *)
(* call with its arguments and its return value.                           *)
(*                                                                         *)
(* Units.  Coordinates are whole millidegrees, distances whole metres,     *)
(* the 'distance' field of a match (round(distance, 2), in km) is a whole  *)
(* number of hundredths of a kilometre.  Interest lists are sequences;     *)
(* set(...) is the set of a sequence's elements.  The timestamps           *)
(* (join_date, posted_at) are read by no operation and are left out.       *)
(*                                                                         *)
(* Bookkeeping that the program does not hold: origin, the registry        *)
(* position behind each element of the list find_matches last returned,    *)
(* and posted, the number of post_activity calls made so far.              *)
(***************************************************************************)
EXTENDS Integers, Sequences, FiniteSets

VARIABLES users, activities, op, args, ret, origin, posted

vars == <<users, activities, op, args, ret, origin, posted>>

---------------------------------------------------------------------------
(* Bounds and input sets *)

MaxUsers == 3
MaxBoardUsers == 1
MaxActivities == 6

Names == {"A", "B"}
\* <<lat, lon>> in millidegrees: (0, 0) and (0, 0.001)
Coords == {<<0, 0>>, <<0, 1>>}
InterestLists == {<<"x", "y">>, <<"z", "z">>}
Bios == {""}
\* radius_km, in metres: 0.0 km and the distance between the two places
Radii == {0, 111}
None == "None"
Filters == {None, "", "z"}
ActivityTypes == {"Badminton"}
Descriptions == {"partner wanted"}
TimeSlots == {"Right now"}
Locations == {""}

---------------------------------------------------------------------------
(* Helpers *)

Range(s) == {s[i] : i \in DOMAIN s}

Abs(x) == IF x < 0 THEN -x ELSE x

\* floor of the square root of n, which lies in lo..hi
ISqrt(n, lo, hi) == CHOOSE r \in lo..hi : r * r <= n /\ (r + 1) * (r + 1) > n

Max(a, b) == IF a > b THEN a ELSE b

\* Python truthiness of the specific_interest argument: None and "" are falsy
Truthy(v) == v # None /\ v # ""

---------------------------------------------------------------------------
(* calculate_distance *)

\* (R * pi / 180000)^2 for R = 6371.0 km: square metres per square millidegree
MetresPerMdegSq == 12364

calculate_distance_lon1_dropped(lat1, lon1, lat2, lon2) ==
    LET dlat == lat2 - lat1
        dlon == lon2
    IN  ISqrt(MetresPerMdegSq * (dlat * dlat + dlon * dlon),
              111 * Max(Abs(dlat), Abs(dlon)), 112 * (Abs(dlat) + Abs(dlon)))

\* Haversine for points a few millidegrees apart near the equator, where
\* sin t = t, cos lat = 1 and atan2(sqrt a, sqrt(1 - a)) = sqrt a to well
\* below a metre: R * 2 * sqrt((dlat/2)^2 + (dlon/2)^2), in whole metres.
calculate_distance(lat1, lon1, lat2, lon2) ==
    LET dlat == lat2 - lat1
        dlon == lon2 - lon1
    IN  ISqrt(MetresPerMdegSq * (dlat * dlat + dlon * dlon),
              111 * Max(Abs(dlat), Abs(dlon)), 112 * (Abs(dlat) + Abs(dlon)))

\* round(distance, 2): metres to hundredths of a kilometre, to nearest,
\* an exact tie to the even neighbour
Round2(d) ==
    LET q == d \div 10
        r == d % 10
    IN  IF r < 5 THEN q
        ELSE IF r > 5 THEN q + 1
        ELSE IF q % 2 = 0 THEN q ELSE q + 1

---------------------------------------------------------------------------
(* find_matches *)

LastIndexOf(us, username) ==
    LET hits == {i \in DOMAIN us : us[i].username = username}
    IN  IF hits = {} THEN 0
        ELSE CHOOSE i \in hits : \A j \in hits : j <= i

FirstIndexOrHead(us, username) ==
    LET hits == {i \in DOMAIN us : us[i].username = username}
    IN  IF hits = {} THEN (IF us = <<>> THEN 0 ELSE 1)
        ELSE CHOOSE i \in hits : \A j \in hits : i <= j

\* next((u for u in self.users if u['username'] == username), None):
\* the index of the first record with that username, 0 for None
FirstIndexOf(us, username) ==
    LET hits == {i \in DOMAIN us : us[i].username = username}
    IN  IF hits = {} THEN 0
        ELSE CHOOSE i \in hits : \A j \in hits : i <= j

\* set(current_user['interests']).intersection(set(user['interests']))
SharedInterests(current_user, user) ==
    Range(current_user.interests) \cap Range(user.interests)

DistanceTo(current_user, user) ==
    calculate_distance(current_user.lat, current_user.lon, user.lat, user.lon)

EmitsWithSelf(current_user, user, username, radius_km, specific_interest) ==
    LET distance == DistanceTo(current_user, user)
        shared_interests == SharedInterests(current_user, user)
    IN  /\ ~(distance > radius_km)
        /\ ~(Truthy(specific_interest) /\ specific_interest \notin shared_interests)
        /\ shared_interests # {}

EmitsEmptyShared(current_user, user, username, radius_km, specific_interest) ==
    LET distance == DistanceTo(current_user, user)
        shared_interests == SharedInterests(current_user, user)
    IN  /\ user.username # username
        /\ ~(distance > radius_km)
        /\ ~(Truthy(specific_interest) /\ specific_interest \notin shared_interests)

\* One pass of the loop body: TRUE when no continue is taken and the
\* candidate is appended to matches
Emits(current_user, user, username, radius_km, specific_interest) ==
    LET distance == DistanceTo(current_user, user)
        shared_interests == SharedInterests(current_user, user)
    IN  /\ user.username # username
        /\ ~(distance > radius_km)
        /\ ~(Truthy(specific_interest) /\ specific_interest \notin shared_interests)
        /\ shared_interests # {}

\* The dict appended to matches; idx (the record's registry position) is
\* bookkeeping of the model and is stripped before the list is returned
MatchEntry(current_user, us, i) ==
    [idx |-> i,
     m   |-> [username         |-> us[i].username,
              distance         |-> Round2(DistanceTo(current_user, us[i])),
              shared_interests |-> SharedInterests(current_user, us[i]),
              bio              |-> us[i].bio,
              all_interests    |-> us[i].interests]]

RECURSIVE ScanFrom(_, _, _, _, _, _)
\* for user in self.users: ... , from registry position i on
ScanFrom(us, cur, username, radius_km, specific_interest, i) ==
    IF i > Len(us) THEN <<>>
    ELSE LET rest == ScanFrom(us, cur, username, radius_km, specific_interest, i + 1)
         IN  IF Emits(us[cur], us[i], username, radius_km, specific_interest)
             THEN <<MatchEntry(us[cur], us, i)>> \o rest
             ELSE rest

InsertBeforeEqual(sorted, e) ==
    LET k == Cardinality({j \in DOMAIN sorted : sorted[j].m.distance < e.m.distance})
    IN  SubSeq(sorted, 1, k) \o <<e>> \o SubSeq(sorted, k + 1, Len(sorted))

\* e placed after every element whose key is not greater: a stable insertion
InsertStable(sorted, e) ==
    LET k == Cardinality({j \in DOMAIN sorted : sorted[j].m.distance <= e.m.distance})
    IN  SubSeq(sorted, 1, k) \o <<e>> \o SubSeq(sorted, k + 1, Len(sorted))

RECURSIVE SortByDistance(_)
\* matches.sort(key=lambda x: x['distance']): list.sort is stable
SortByDistance(s) ==
    IF s = <<>> THEN <<>>
    ELSE InsertStable(SortByDistance(SubSeq(s, 1, Len(s) - 1)), s[Len(s)])

\* The sorted entries built by find_matches
find_matches_entries(us, username, radius_km, specific_interest) ==
    LET cur == FirstIndexOf(us, username)
    IN  IF cur = 0 THEN <<>>
        ELSE SortByDistance(ScanFrom(us, cur, username, radius_km, specific_interest, 1))

\* The list find_matches returns
find_matches(us, username, radius_km, specific_interest) ==
    LET es == find_matches_entries(us, username, radius_km, specific_interest)
    IN  [k \in DOMAIN es |-> es[k].m]

\* The registry position behind each returned element
find_matches_origin(us, username, radius_km, specific_interest) ==
    LET es == find_matches_entries(us, username, radius_km, specific_interest)
    IN  [k \in DOMAIN es |-> es[k].idx]

---------------------------------------------------------------------------
(* post_activity and the recent-activities feed *)

FeedSize == 5

NextIdZeroBased(acts) == Len(acts)

\* 'id': len(self.activities) + 1
NextId(acts) == Len(acts) + 1

FirstN(acts, n) == SubSeq(acts, 1, IF Len(acts) < n THEN Len(acts) ELSE n)

\* self.activities[-n:] for n >= 1
LastN(acts, n) ==
    SubSeq(acts, IF Len(acts) > n THEN Len(acts) - n + 1 ELSE 1, Len(acts))

---------------------------------------------------------------------------
(* Operations *)

Init ==
    /\ users = <<>>
    /\ activities = <<>>
    /\ op = "init"
    /\ args = <<>>
    /\ ret = <<>>
    /\ origin = <<>>
    /\ posted = 0

\* HobbyCirclesApp.add_user
add_user(username, lat, lon, interests, bio) ==
    /\ users' = Append(users, [username  |-> username,
                               lat       |-> lat,
                               lon       |-> lon,
                               interests |-> interests,
                               bio       |-> bio])
    /\ op' = "add_user"
    /\ args' = [username |-> username, lat |-> lat, lon |-> lon,
                interests |-> interests, bio |-> bio]
    /\ ret' = <<"Welcome ", username, "! Your profile is ready.">>
    /\ origin' = <<>>
    /\ UNCHANGED <<activities, posted>>

AddUser ==
    /\ Len(users) < MaxUsers
    /\ \E username \in Names, c \in Coords, interests \in InterestLists, bio \in Bios :
          add_user(username, c[1], c[2], interests, bio)

AddBoardUser ==
    /\ Len(users) < MaxBoardUsers
    /\ \E username \in Names, c \in Coords, interests \in InterestLists, bio \in Bios :
          add_user(username, c[1], c[2], interests, bio)

\* HobbyCirclesApp.find_matches
FindMatches ==
    \E username \in Names, radius_km \in Radii, specific_interest \in Filters :
        /\ op' = "find_matches"
        /\ args' = [username |-> username, radius_km |-> radius_km,
                    specific_interest |-> specific_interest]
        /\ LET es == find_matches_entries(users, username, radius_km, specific_interest)
           IN  /\ ret' = [k \in DOMAIN es |-> es[k].m]
               /\ origin' = [k \in DOMAIN es |-> es[k].idx]
        /\ UNCHANGED <<users, activities, posted>>

\* HobbyCirclesApp.post_activity
PostActivity ==
    /\ Len(activities) < MaxActivities
    /\ \E username \in Names, activity_type \in ActivityTypes,
          description \in Descriptions, time_slot \in TimeSlots,
          location \in Locations :
          LET activity == [id            |-> NextId(activities),
                           username      |-> username,
                           activity_type |-> activity_type,
                           description   |-> description,
                           time_slot     |-> time_slot,
                           location      |-> location,
                           responses     |-> <<>>]
          IN  /\ activities' = Append(activities, activity)
              /\ ret' = activity.id
              /\ op' = "post_activity"
              /\ args' = [username |-> username, activity_type |-> activity_type,
                          description |-> description, time_slot |-> time_slot,
                          location |-> location]
    /\ posted' = posted + 1
    /\ origin' = <<>>
    /\ UNCHANGED users

\* The feed under "Recent Activities": the activities it lists, in order
RecentActivities ==
    /\ op' = "recent"
    /\ args' = [n |-> FeedSize]
    /\ ret' = IF activities # <<>> THEN LastN(activities, FeedSize) ELSE <<>>
    /\ origin' = <<>>
    /\ UNCHANGED <<users, activities, posted>>

Next == AddUser \/ FindMatches

Spec == Init /\ [][Next]_vars

NextBoard == AddBoardUser \/ FindMatches \/ PostActivity \/ RecentActivities

SpecBoard == Init /\ [][NextBoard]_vars

---------------------------------------------------------------------------
(* Properties *)

IsFind == op = "find_matches"

\* The registry position find_matches resolves the querying username to:
\* the earliest-inserted record that carries it
Earliest(username) ==
    CHOOSE i \in DOMAIN users :
        /\ users[i].username = username
        /\ \A j \in 1..(i - 1) : users[j].username # username

Resolves(username) == \E i \in DOMAIN users : users[i].username = username

Min(a, b) == IF a < b THEN a ELSE b

\* C1: no element returned by find_matches carries the querying username.
C1_NoSelfMatch ==
    IsFind => \A k \in DOMAIN ret : ret[k].username # args.username

\* The querying username is registered twice and the call returned a match.
C1_Witness ==
    /\ IsFind
    /\ ret # <<>>
    /\ Cardinality({i \in DOMAIN users : users[i].username = args.username}) >= 2

\* C2: the returned list is sorted non-decreasingly by 'distance', and results
\* of equal 'distance' keep the relative order of their registry records.
C2_SortedStable ==
    IsFind =>
        \A j, k \in DOMAIN ret :
            j < k => /\ ret[j].distance <= ret[k].distance
                     /\ ret[j].distance = ret[k].distance => origin[j] < origin[k]

\* Two results tie on 'distance', from records registered after the
\* querying user's.
C2_Witness ==
    /\ IsFind
    /\ Len(ret) >= 2
    /\ ret[1].distance = ret[2].distance
    /\ ret[1].distance > 0
    /\ origin[1] > 1

\* C3: with a specific_interest other than None, every returned element has
\* it among its shared interests.
C3_FilterGivenContained ==
    (IsFind /\ args.specific_interest # None) =>
        \A k \in DOMAIN ret : args.specific_interest \in ret[k].shared_interests

\* C4: every returned element has a non-empty 'shared_interests', equal to the
\* intersection of the querying user's and the candidate's interests.
C4_SharedNonEmptyIntersection ==
    IsFind =>
        \A k \in DOMAIN ret :
            /\ ret[k].shared_interests # {}
            /\ ret[k].shared_interests =
                  Range(users[Earliest(args.username)].interests)
                     \cap Range(ret[k].all_interests)

\* A match is returned while another record in reach, of another username,
\* shares nothing with the querying user.
C4_Witness ==
    /\ IsFind
    /\ ret # <<>>
    /\ \E i \in DOMAIN users :
          /\ users[i].username # args.username
          /\ DistanceTo(users[Earliest(args.username)], users[i]) <= args.radius_km
          /\ Range(users[Earliest(args.username)].interests)
                \cap Range(users[i].interests) = {}

\* C5: find_matches for a username no record carries returns the empty list
\* and changes neither the registry nor the activity list.
C5_UnknownUserEmpty ==
    [][(op' = "find_matches" /\ \A i \in DOMAIN users : users[i].username # args'.username)
          => (ret' = <<>> /\ users' = users /\ activities' = activities)]_vars

\* An unknown username was queried against a non-empty registry and board.
C5_Witness ==
    /\ IsFind
    /\ users # <<>>
    /\ activities # <<>>
    /\ \A i \in DOMAIN users : users[i].username # args.username

\* C6: the k-th post_activity call returns k, the activity at position i has
\* id i, and no stored activity is changed or removed.
C6_IdsGapFree ==
    [][/\ \A i \in DOMAIN activities :
             i \in DOMAIN activities' /\ activities'[i] = activities[i]
       /\ \A i \in DOMAIN activities' : activities'[i].id = i
       /\ op' = "post_activity" => (posted' = posted + 1 /\ ret' = posted')]_vars

\* A third or later activity was posted after a user had registered.
C6_Witness ==
    /\ op = "post_activity"
    /\ ret >= 3
    /\ users # <<>>

\* C7: the feed holds exactly the last min(5, total) activities, in posting
\* order, the most recently posted last.
C7_RecentLastFive ==
    op = "recent" =>
        /\ Len(ret) = Min(FeedSize, Len(activities))
        /\ \A k \in DOMAIN ret : ret[k] = activities[Len(activities) - Len(ret) + k]

\* The feed was read with more activities posted than it shows.
C7_Witness ==
    /\ op = "recent"
    /\ Len(activities) > FeedSize
    /\ Len(ret) = FeedSize

\* A registry record qualifies for a query, a filter counting as given
\* whenever it is not None
Qualifies(i, username, radius_km, specific_interest) ==
    LET cur    == users[Earliest(username)]
        shared == Range(cur.interests) \cap Range(users[i].interests)
    IN  /\ users[i].username # username
        /\ DistanceTo(cur, users[i]) <= radius_km
        /\ shared # {}
        /\ specific_interest # None => specific_interest \in shared

\* C8: for a resolving username, find_matches returns exactly one result per
\* qualifying registry record and none for any other record.
C8_ExactlyQualifying ==
    (IsFind /\ Resolves(args.username)) =>
        /\ \A j, k \in DOMAIN origin : j # k => origin[j] # origin[k]
        /\ Range(origin) = {i \in DOMAIN users :
              Qualifies(i, args.username, args.radius_km, args.specific_interest)}

\* C9: add_user appends a record and leaves the earlier ones as they were,
\* also for a username already registered; find_matches computes distances
\* and shared interests from the earliest record of the querying username.
C9_AppendOnlyFirstMatch ==
    [][/\ op' = "add_user" =>
             /\ Len(users') = Len(users) + 1
             /\ \A i \in DOMAIN users : users'[i] = users[i]
             /\ users'[Len(users')].username = args'.username
       /\ (op' = "find_matches" /\ Resolves(args'.username)) =>
             \A k \in DOMAIN ret' :
                LET cur == users[Earliest(args'.username)]
                    cand == users[origin'[k]]
                IN  /\ ret'[k].distance = Round2(DistanceTo(cur, cand))
                    /\ ret'[k].shared_interests =
                          Range(cur.interests) \cap Range(cand.interests)]_vars

\* The querying username has two differing records and a match is returned.
C9_Witness ==
    /\ IsFind
    /\ ret # <<>>
    /\ \E i, j \in DOMAIN users :
          /\ i < j
          /\ users[i].username = args.username
          /\ users[j].username = args.username
          /\ users[i] # users[j]

DistinctUsernames ==
    \A i, j \in DOMAIN users : i # j => users[i].username # users[j].username

\* C10: with distinct usernames, B is among find_matches(A, r, s) iff A is
\* among find_matches(B, r, s), with the same 'distance' and shared interests.
C10_Symmetric ==
    DistinctUsernames =>
        \A a, b \in DOMAIN users : \A r \in Radii, s \in Filters :
            a # b =>
               LET ra == find_matches(users, users[a].username, r, s)
                   rb == find_matches(users, users[b].username, r, s)
                   ia == {k \in DOMAIN ra : ra[k].username = users[b].username}
                   ib == {k \in DOMAIN rb : rb[k].username = users[a].username}
               IN  /\ (ia = {}) <=> (ib = {})
                   /\ \A k \in ia, l \in ib :
                         /\ ra[k].distance = rb[l].distance
                         /\ ra[k].shared_interests = rb[l].shared_interests

\* Two users of different names at different places, one matched by the other.
C10_Witness ==
    /\ IsFind
    /\ ret # <<>>
    /\ Len(users) = 2
    /\ DistinctUsernames
    /\ <<users[1].lat, users[1].lon>> # <<users[2].lat, users[2].lon>>

=============================================================================
